---- MODULE Spec2Model ----
(***************************************************************************)
(* Model of custom_components/grocy/calendar.py: the calendar platform of  *)
(* the Grocy integration.                                                  *)
(*                                                                         *)
(*   GrocyCalendarEvent.__init__   the event mapper (lines 102-188)        *)
(*   GrocyCalendarEntity           the calendar entity (lines 191-225)     *)
(*   async_setup_entry, CALENDARS  the platform setup (lines 37-99)        *)
(*                                                                         *)
(* Python values are records tagged with their runtime type in the field   *)
(* py, so that isinstance, truthiness and "x or None" are computed as      *)
(* Python computes them.  Time is counted in whole hours of wall clock; a  *)
(* date is counted in days.  All times lie well inside the range that      *)
(* datetime can represent.                                                 *)
(***************************************************************************)
EXTENDS Integers, Sequences, FiniteSets, TLC

VARIABLES
    clock,                 \* the host's wall clock, in hours (what now() reads)
    mapped,                \* the outcome of the last GrocyCalendarEvent(item, key)
    data,                  \* coordinator.data: category key -> list or None
    query,                 \* the outcome of the last async_get_events call
    available_entities,    \* coordinator.available_entities
    coordinator_entities,  \* coordinator.entities
    added,                 \* what async_add_entities was called with
    debug_log              \* keys logged by _LOGGER.debug in async_setup_entry

vars == <<clock, mapped, data, query, available_entities,
          coordinator_entities, added, debug_log>>

---------------------------------------------------------------------------
(* Bounds of the model *)

BootTime == 23
MaxClock == 25
MaxLen == 2
MaxOther == 2

---------------------------------------------------------------------------
(* Python values *)

None == [py |-> "None"]
Str(s) == [py |-> "str", s |-> s]
List(items) == [py |-> "list", items |-> items]
Date(d) == [py |-> "date", ord |-> d]
DateTime(h, tz) == [py |-> "datetime", hours |-> h, tzinfo |-> tz]

\* bool(v): None, "" and [] are false; every date and datetime is true
Truthy(v) ==
    CASE v.py = "None" -> FALSE
      [] v.py = "str" -> v.s # ""
      [] v.py = "list" -> Len(v.items) > 0
      [] OTHER -> TRUE

\* a or b
PyOr(a, b) == IF Truthy(a) THEN a ELSE b

Digit(n) ==
    CASE n = 0 -> "0" [] n = 1 -> "1" [] n = 2 -> "2" [] n = 3 -> "3"
      [] n = 4 -> "4" [] n = 5 -> "5" [] n = 6 -> "6" [] n = 7 -> "7"
      [] n = 8 -> "8" [] n = 9 -> "9"

RECURSIVE Digits(_)
Digits(n) == IF n < 10 THEN Digit(n) ELSE Digits(n \div 10) \o Digit(n % 10)

\* int.__str__
int__str__(n) == IF n < 0 THEN "-" \o Digits(-n) ELSE Digits(n)

\* the name of type(item): type(None) is NoneType
TypeName(item) == IF item.py = "None" THEN "NoneType" ELSE item.py

\* repr of type(item), as the f-string of line 188 formats it
TypeRepr(item) == "<class '" \o TypeName(item) \o "'>"

---------------------------------------------------------------------------
(* homeassistant.util.dt and datetime *)

DEFAULT_TIME_ZONE == "DEFAULT_TIME_ZONE"
HoursPerDay == 24
OneHour == 1
OneDay == 1

\* now(): the current time as a datetime in the default time zone
now(t) == DateTime(t, DEFAULT_TIME_ZONE)

\* datetime.date()
date_of(dt) == Date(dt.hours \div HoursPerDay)

\* datetime.replace(tzinfo=tz): the wall-clock fields stay, the zone is set
replace_tzinfo(dt, tz) == [dt EXCEPT !.tzinfo = tz]

\* datetime - timedelta(hours=n): wall-clock arithmetic, the zone stays
minus_hours(dt, n) == [dt EXCEPT !.hours = @ - n]

\* date + timedelta(days=n)
plus_days(d, n) == [d EXCEPT !.ord = @ + n]

---------------------------------------------------------------------------
(* Category keys (const.py, imported at lines 22-29) *)

ATTR_BATTERIES == "batteries"
ATTR_CHORES == "chores"
ATTR_EXPIRING_PRODUCTS == "expiring_products"
ATTR_MEAL_PLAN == "meal_plan"
ATTR_TASKS == "tasks"

Keys == {ATTR_BATTERIES, ATTR_CHORES, ATTR_EXPIRING_PRODUCTS,
         ATTR_MEAL_PLAN, ATTR_TASKS}

---------------------------------------------------------------------------
(* CalendarEvent and the event mapper *)

CalendarEvent(uid, summary, start, end, description) ==
    [uid |-> uid, summary |-> summary, start |-> start, end |-> end,
     description |-> description, location |-> None,
     recurrence_id |-> None, rrule |-> None]

Constructed(ev) == [outcome |-> "event", event |-> ev]
Raised(exc, msg) == [outcome |-> "raise", exc |-> exc, msg |-> msg]

\* lines 108-125
ChoreEvent(item, t) ==
    LET end == IF Truthy(item.next_estimated_execution_time)
               THEN replace_tzinfo(item.next_estimated_execution_time,
                                   DEFAULT_TIME_ZONE)
               ELSE now(t)
        start == minus_hours(end, OneHour)
    IN  CalendarEvent(int__str__(item.id), item.name, start, end,
                      PyOr(item.description, None))

\* BatteryEvent without the zone attached to the charge time
BatteryEvent_KeepZone(item, t) ==
    LET end == IF Truthy(item.next_estimated_charge_time)
               THEN item.next_estimated_charge_time
               ELSE now(t)
        start == minus_hours(end, OneHour)
    IN  CalendarEvent(int__str__(item.id), item.name, start, end,
                      PyOr(item.description, None))

\* lines 126-143
BatteryEvent(item, t) ==
    LET end == IF Truthy(item.next_estimated_charge_time)
               THEN replace_tzinfo(item.next_estimated_charge_time,
                                   DEFAULT_TIME_ZONE)
               ELSE now(t)
        start == minus_hours(end, OneHour)
    IN  CalendarEvent(int__str__(item.id), item.name, start, end,
                      PyOr(item.description, None))

\* MealPlanEvent with the window put before the day instead of on it
MealPlanEvent_DayBefore(item, t) ==
    LET end == IF Truthy(item.meal_plan.day)
               THEN plus_days(item.meal_plan.day, OneDay)
               ELSE date_of(now(t))
        start == plus_days(end, 0 - OneDay)
    IN  CalendarEvent(int__str__(item.meal_plan.id),
                      item.meal_plan.recipe.name, start, end,
                      PyOr(item.meal_plan.recipe.description, None))

\* lines 144-157
MealPlanEvent(item, t) ==
    LET start == IF Truthy(item.meal_plan.day)
                 THEN item.meal_plan.day
                 ELSE date_of(now(t))
        end == plus_days(start, OneDay)
    IN  CalendarEvent(int__str__(item.meal_plan.id),
                      item.meal_plan.recipe.name, start, end,
                      PyOr(item.meal_plan.recipe.description, None))

\* ProductEvent with a window of two days
ProductEvent_TwoDays(item, t) ==
    LET start == IF Truthy(item.best_before_date)
                 THEN item.best_before_date
                 ELSE date_of(now(t))
        end == plus_days(start, OneDay + OneDay)
    IN  CalendarEvent(int__str__(item.id), item.name, start, end, None)

\* lines 158-171
ProductEvent(item, t) ==
    LET start == IF Truthy(item.best_before_date)
                 THEN item.best_before_date
                 ELSE date_of(now(t))
        end == plus_days(start, OneDay)
    IN  CalendarEvent(int__str__(item.id), item.name, start, end, None)

\* TaskEvent ending on the day it starts
TaskEvent_SameDay(item, t) ==
    LET start == IF Truthy(item.due_date)
                 THEN item.due_date
                 ELSE date_of(now(t))
        end == start
    IN  CalendarEvent(int__str__(item.id), item.name, start, end,
                      PyOr(item.description, None))

\* TaskEvent passing the description on as it is
TaskEvent_RawDescription(item, t) ==
    LET start == IF Truthy(item.due_date)
                 THEN item.due_date
                 ELSE date_of(now(t))
        end == plus_days(start, OneDay)
    IN  CalendarEvent(int__str__(item.id), item.name, start, end,
                      item.description)

\* lines 172-186
TaskEvent(item, t) ==
    LET start == IF Truthy(item.due_date)
                 THEN item.due_date
                 ELSE date_of(now(t))
        end == plus_days(start, OneDay)
    IN  CalendarEvent(int__str__(item.id), item.name, start, end,
                      PyOr(item.description, None))

\* Unsupported with a message that leaves the key out
Unsupported_NoKey(item, key) ==
    Raised("NotImplementedError", TypeRepr(item))

\* lines 187-188
Unsupported(item, key) ==
    Raised("NotImplementedError", key \o " => " \o TypeRepr(item))

\* GrocyCalendarEvent(item, key) evaluated when the clock reads t
GrocyCalendarEvent(item, key, t) ==
    CASE item.py = "Chore" -> Constructed(ChoreEvent(item, t))
      [] item.py = "Battery" -> Constructed(BatteryEvent(item, t))
      [] item.py = "MealPlanItemWrapper" -> Constructed(MealPlanEvent(item, t))
      [] item.py = "Product" -> Constructed(ProductEvent(item, t))
      [] item.py = "Task" -> Constructed(TaskEvent(item, t))
      [] OTHER -> Unsupported(item, key)

---------------------------------------------------------------------------
(* The items the upstream library hands over (pygrocy data models and     *)
(* helpers.MealPlanItemWrapper), drawn from small sets                     *)

Idents == {[id |-> 1, name |-> "Vacuum"], [id |-> 12, name |-> "Smoke alarm"]}
Descriptions == {None, Str(""), Str("buy milk")}
Timestamps == {None} \cup {DateTime(h, tz) : h \in {3, 30}, tz \in {"None", "UTC"}}
Days == {None, Date(0), Date(2)}

Chore(i, d, ts) ==
    [py |-> "Chore", id |-> i.id, name |-> i.name, description |-> d,
     next_estimated_execution_time |-> ts]
Battery(i, d, ts) ==
    [py |-> "Battery", id |-> i.id, name |-> i.name, description |-> d,
     next_estimated_charge_time |-> ts]
MealPlanItemWrapper(i, d, day) ==
    [py |-> "MealPlanItemWrapper",
     meal_plan |-> [id |-> i.id, day |-> day,
                    recipe |-> [id |-> i.id + 100, name |-> i.name,
                                description |-> d]]]
Product(i, d, day) ==
    [py |-> "Product", id |-> i.id, name |-> i.name, description |-> d,
     best_before_date |-> day]
Task(i, d, day) ==
    [py |-> "Task", id |-> i.id, name |-> i.name, description |-> d,
     due_date |-> day]
\* an object of a type the mapper does not know
ShoppingListProduct ==
    [py |-> "pygrocy.data_models.product.ShoppingListProduct", id |-> 7,
     name |-> "Milk"]

SupportedTypes == {"Chore", "Battery", "MealPlanItemWrapper", "Product", "Task"}

SupportedItems ==
    {Chore(i, d, ts) : i \in Idents, d \in Descriptions, ts \in Timestamps}
    \cup {Battery(i, d, ts) : i \in Idents, d \in Descriptions, ts \in Timestamps}
    \cup {MealPlanItemWrapper(i, d, day) : i \in Idents, d \in Descriptions, day \in Days}
    \cup {Product(i, d, day) : i \in Idents, d \in Descriptions, day \in Days}
    \cup {Task(i, d, day) : i \in Idents, d \in Descriptions, day \in Days}

Items == SupportedItems \cup {ShoppingListProduct, None}

---------------------------------------------------------------------------
(* The coordinator's cache (coordinator.py): data[key] is a list of items *)
(* or None.                                                                *)

CachedChore == Chore([id |-> 1, name |-> "Vacuum"], Str("buy milk"), DateTime(30, "None"))
CachedTask == Task([id |-> 12, name |-> "Smoke alarm"], Str(""), None)
CacheItems == {None, ShoppingListProduct, CachedChore, CachedTask}

RECURSIVE SeqsUpTo(_, _)
SeqsUpTo(S, n) ==
    IF n = 0 THEN {<<>>}
    ELSE LET shorter == SeqsUpTo(S, n - 1)
         IN  shorter \cup {Append(s, x) : s \in {q \in shorter : Len(q) = n - 1}, x \in S}

CacheValues == {None} \cup {List(s) : s \in SeqsUpTo(CacheItems, MaxLen)}

EmptyCache == [k \in Keys |-> None]

\* coordinator.data[key]
coordinator_data(d, key) == d[key]

---------------------------------------------------------------------------
(* GrocyCalendarEntity *)

Returned(v) == [outcome |-> "return", value |-> v]

\* Comprehension with a failing item skipped instead of ending the query
RECURSIVE Comprehension_Skip(_, _, _, _)
Comprehension_Skip(items, key, t, acc) ==
    IF items = <<>> THEN Returned(List(acc))
    ELSE IF Head(items) # None
         THEN LET r == GrocyCalendarEvent(Head(items), key, t)
              IN  IF r.outcome = "raise"
                  THEN Comprehension_Skip(Tail(items), key, t, acc)
                  ELSE Comprehension_Skip(Tail(items), key, t, Append(acc, r.event))
         ELSE Comprehension_Skip(Tail(items), key, t, acc)

\* The list comprehension of lines 218-222: the items in order, None
\* skipped, each mapped; the first exception leaves the comprehension.
RECURSIVE Comprehension(_, _, _, _)
Comprehension(items, key, t, acc) ==
    IF items = <<>> THEN Returned(List(acc))
    ELSE IF Head(items) # None
         THEN LET r == GrocyCalendarEvent(Head(items), key, t)
              IN  IF r.outcome = "raise" THEN r
                  ELSE Comprehension(Tail(items), key, t, Append(acc, r.event))
         ELSE Comprehension(Tail(items), key, t, acc)

\* whether an event overlaps the window [start_date, end_date)
InWindow(ev, start_date, end_date) ==
    IF ev.start.py = "datetime"
    THEN ev.end.hours > start_date.hours /\ ev.start.hours < end_date.hours
    ELSE ev.end.ord * HoursPerDay > start_date.hours
         /\ ev.start.ord * HoursPerDay < end_date.hours

\* async_get_events_result with no list at all when there is no data
async_get_events_result_None(d, key, start_date, end_date, t) ==
    LET entity_data == coordinator_data(d, key)
    IN  IF Truthy(entity_data)
        THEN Comprehension(entity_data.items, key, t, <<>>)
        ELSE Returned(None)

\* async_get_events_result keeping only the events of the window asked for
async_get_events_result_Windowed(d, key, start_date, end_date, t) ==
    LET entity_data == coordinator_data(d, key)
        r == Comprehension(entity_data.items, key, t, <<>>)
    IN  IF Truthy(entity_data)
        THEN IF r.outcome = "raise" THEN r
             ELSE Returned(List(SelectSeq(r.value.items,
                      LAMBDA ev : InWindow(ev, start_date, end_date))))
        ELSE Returned(List(<<>>))

\* What async_get_events(hass, start_date, end_date) gives for the entity
\* whose description has the given key, on cache d, when the clock reads t
async_get_events_result(d, key, start_date, end_date, t) ==
    LET entity_data == coordinator_data(d, key)
    IN  IF Truthy(entity_data)
        THEN Comprehension(entity_data.items, key, t, <<>>)
        ELSE Returned(List(<<>>))

\* the event property, lines 194-198
event == None

---------------------------------------------------------------------------
(* CALENDARS and async_setup_entry *)

\* exists_attr is the constant the description's exists_fn looks for
GrocyCalendarEntityDescription(key, name, icon, exists_attr) ==
    [key |-> key, name |-> name, icon |-> icon, exists_attr |-> exists_attr,
     entity_registry_enabled_default |-> FALSE]

\* CALENDARS with the chores calendar testing for the batteries
CALENDARS_CopyPaste ==
    << GrocyCalendarEntityDescription(ATTR_BATTERIES, "Grocy batteries",
                                      "mdi:battery", ATTR_BATTERIES),
       GrocyCalendarEntityDescription(ATTR_CHORES, "Grocy chores",
                                      "mdi:broom", ATTR_BATTERIES),
       GrocyCalendarEntityDescription(ATTR_EXPIRING_PRODUCTS,
                                      "Grocy expiring products",
                                      "mdi:clock-fast", ATTR_EXPIRING_PRODUCTS),
       GrocyCalendarEntityDescription(ATTR_MEAL_PLAN, "Grocy meal plan",
                                      "mdi:silverware-variant", ATTR_MEAL_PLAN),
       GrocyCalendarEntityDescription(ATTR_TASKS, "Grocy tasks",
                                      "mdi:checkbox-marked-circle-outline",
                                      ATTR_TASKS) >>

CALENDARS ==
    << GrocyCalendarEntityDescription(ATTR_BATTERIES, "Grocy batteries",
                                      "mdi:battery", ATTR_BATTERIES),
       GrocyCalendarEntityDescription(ATTR_CHORES, "Grocy chores",
                                      "mdi:broom", ATTR_CHORES),
       GrocyCalendarEntityDescription(ATTR_EXPIRING_PRODUCTS,
                                      "Grocy expiring products",
                                      "mdi:clock-fast", ATTR_EXPIRING_PRODUCTS),
       GrocyCalendarEntityDescription(ATTR_MEAL_PLAN, "Grocy meal plan",
                                      "mdi:silverware-variant", ATTR_MEAL_PLAN),
       GrocyCalendarEntityDescription(ATTR_TASKS, "Grocy tasks",
                                      "mdi:checkbox-marked-circle-outline",
                                      ATTR_TASKS) >>

\* description.exists_fn(entities)
exists_fn(description, entities) == description.exists_attr \in entities

GrocyCalendarEntity(description) ==
    [platform |-> "calendar", entity_description |-> description]

\* The loop of lines 45-54 from description i on: st holds the local list
\* entities, coordinator.entities and the debug log.
RECURSIVE SetupLoop(_, _, _)
SetupLoop(i, avail, st) ==
    IF i > Len(CALENDARS) THEN st
    ELSE LET description == CALENDARS[i]
             entity == GrocyCalendarEntity(description)
         IN  IF exists_fn(description, avail)
             THEN SetupLoop(i + 1, avail,
                            [st EXCEPT !.entities = Append(@, entity),
                                       !.coordinator_entities = Append(@, entity)])
             ELSE SetupLoop(i + 1, avail,
                            [st EXCEPT !.log = Append(@, description.key)])

---------------------------------------------------------------------------
(* The state machine *)

Idle == [outcome |-> "idle"]
NotMapped == [result |-> Idle]
NoQuery == [result |-> Idle]
NotAdded == [called |-> FALSE, entities |-> <<>>, update_before_add |-> FALSE]

\* the windows the host asks for, as [start_date, end_date)
Windows ==
    {<<DateTime(24, DEFAULT_TIME_ZONE), DateTime(48, DEFAULT_TIME_ZONE)>>,
     <<DateTime(72, DEFAULT_TIME_ZONE), DateTime(96, DEFAULT_TIME_ZONE)>>}

\* entities of the integration's other platforms, which share coordinator.entities
OtherEntities ==
    {[platform |-> "sensor", entity_description |-> [key |-> "stock"]],
     [platform |-> "binary_sensor", entity_description |-> [key |-> "overdue_chores"]]}

\* what the upstream service can report as available
AllEntityKeys == Keys \cup {"stock"}

Init ==
    /\ clock = BootTime
    /\ mapped = NotMapped
    /\ data = EmptyCache
    /\ query = NoQuery
    /\ available_entities = Keys
    /\ coordinator_entities = <<>>
    /\ added = NotAdded
    /\ debug_log = <<>>

\* time passes
Tick ==
    /\ clock < MaxClock
    /\ clock' = clock + 1
    /\ UNCHANGED <<mapped, data, query, available_entities,
                   coordinator_entities, added, debug_log>>

\* a caller constructs GrocyCalendarEvent(item, key)
Construct(item, key) ==
    /\ mapped' = [item |-> item, key |-> key, at |-> clock,
                  result |-> GrocyCalendarEvent(item, key, clock)]
    /\ UNCHANGED <<clock, data, query, available_entities,
                   coordinator_entities, added, debug_log>>

\* The coordinator publishes a refreshed snapshot in which category k holds
\* v; the host drops the events of the earlier snapshot.
Refresh(k, v) ==
    /\ data' = [kk \in Keys |-> IF kk = k THEN v ELSE None]
    /\ query' = NoQuery
    /\ UNCHANGED <<clock, mapped, available_entities,
                   coordinator_entities, added, debug_log>>

\* async_setup_entry(hass, config_entry, async_add_entities), lines 37-56
async_setup_entry ==
    /\ ~added.called
    /\ LET st == SetupLoop(1, available_entities,
                           [entities |-> <<>>,
                            coordinator_entities |-> coordinator_entities,
                            log |-> debug_log])
       IN  /\ coordinator_entities' = st.coordinator_entities
           /\ debug_log' = st.log
           /\ added' = [called |-> TRUE, entities |-> st.entities,
                        update_before_add |-> TRUE]
    /\ UNCHANGED <<clock, mapped, data, query, available_entities>>

\* the host calls entity.async_get_events(hass, start_date, end_date)
async_get_events(i, w) ==
    LET key == added.entities[i].entity_description.key
    IN  /\ query' = [key |-> key, start_date |-> w[1], end_date |-> w[2],
                     at |-> clock,
                     result |-> async_get_events_result(data, key, w[1], w[2], clock)]
        /\ UNCHANGED <<clock, mapped, data, available_entities,
                       coordinator_entities, added, debug_log>>

\* another platform of the integration registers an entity with the coordinator
OtherPlatformSetup(e) ==
    /\ Len(SelectSeq(coordinator_entities, LAMBDA x : x.platform # "calendar")) < MaxOther
    /\ coordinator_entities' = Append(coordinator_entities, e)
    /\ UNCHANGED <<clock, mapped, data, query, available_entities, added, debug_log>>

Next ==
    \/ Tick
    \/ \E k \in Keys, v \in CacheValues : Refresh(k, v)
    \/ async_setup_entry
    \/ \E i \in 1..Len(added.entities), w \in Windows : async_get_events(i, w)

\* the calendar entities at work: setup, refreshes and queries
Spec == Init /\ [][Next]_vars

MapNext ==
    \/ Tick
    \/ \E item \in Items, key \in Keys : Construct(item, key)

\* the event mapper applied to every item
MapSpec == Init /\ [][MapNext]_vars

SetupInit ==
    /\ clock = BootTime
    /\ mapped = NotMapped
    /\ data = EmptyCache
    /\ query = NoQuery
    /\ available_entities \in SUBSET AllEntityKeys
    /\ coordinator_entities = <<>>
    /\ added = NotAdded
    /\ debug_log = <<>>

SetupNext ==
    \/ async_setup_entry
    \/ \E e \in OtherEntities : OtherPlatformSetup(e)

\* platform setup, for every set of available entities
SetupSpec == SetupInit /\ [][SetupNext]_vars

---------------------------------------------------------------------------
(* Properties of the event mapper, checked under MapSpec *)

\* the time or date field the mapper reads from an item of a supported type
DueOf(item) ==
    CASE item.py = "Chore" -> item.next_estimated_execution_time
      [] item.py = "Battery" -> item.next_estimated_charge_time
      [] item.py = "MealPlanItemWrapper" -> item.meal_plan.day
      [] item.py = "Product" -> item.best_before_date
      [] item.py = "Task" -> item.due_date

MapperCalled == mapped.result.outcome # "idle"
SupportedCall == MapperCalled /\ mapped.item.py \in SupportedTypes
TimestampCall == MapperCalled /\ mapped.item.py \in {"Chore", "Battery"}
DateOnlyCall ==
    MapperCalled /\ mapped.item.py \in {"MealPlanItemWrapper", "Product", "Task"}

\* a > b as Python compares two dates, or two datetimes of one zone
Later(a, b) ==
    /\ a.py = b.py
    /\ IF a.py = "datetime"
       THEN a.tzinfo = b.tzinfo /\ a.hours > b.hours
       ELSE a.ord > b.ord

\* C1: for every item of a supported kind, with its due/next-time field
\* present or absent, the mapper produces an event whose end is strictly
\* greater than its start.
C1_EndAfterStart ==
    SupportedCall =>
        /\ mapped.result.outcome = "event"
        /\ Later(mapped.result.event.end, mapped.result.event.start)

C1_Witness ==
    /\ SupportedCall
    /\ mapped.item.py = "Task"
    /\ mapped.item.due_date = None
    /\ mapped.result.outcome = "event"

\* C2: for a Chore or a Battery, end is the next time T with the default
\* zone attached and the wall clock of T unchanged when T is present, and
\* now() when it is absent; start is end minus exactly one hour.
C2_TimestampWindow ==
    TimestampCall =>
        LET T == DueOf(mapped.item)
            ev == mapped.result.event
        IN  /\ mapped.result.outcome = "event"
            /\ ev.end.py = "datetime"
            /\ ev.end.tzinfo = DEFAULT_TIME_ZONE
            /\ ev.end.hours = IF T # None THEN T.hours ELSE mapped.at
            /\ ev.start.py = "datetime"
            /\ ev.start.tzinfo = ev.end.tzinfo
            /\ ev.start.hours = ev.end.hours - 1

C2_Witness ==
    /\ TimestampCall
    /\ mapped.item.py = "Battery"
    /\ mapped.item.next_estimated_charge_time = DateTime(30, "UTC")
    /\ mapped.result.outcome = "event"
    /\ mapped.result.event.start = DateTime(29, DEFAULT_TIME_ZONE)

SourceOf(item) ==
    IF item.py = "MealPlanItemWrapper"
    THEN [id |-> item.meal_plan.id, name |-> item.meal_plan.recipe.name,
          description |-> item.meal_plan.recipe.description]
    ELSE [id |-> item.id, name |-> item.name, description |-> item.description]

\* C5: uid is the stringified source id (the plan id for a MealPlanEntry),
\* the title is the name (the recipe name), the description is the source
\* description when it is non-empty and none otherwise, and always none for
\* a Product.
C5_IdTitleDescription ==
    SupportedCall =>
        LET src == SourceOf(mapped.item)
            ev == mapped.result.event
        IN  /\ mapped.result.outcome = "event"
            /\ ev.uid = ToString(src.id)
            /\ ev.summary = src.name
            /\ ev.description =
                  IF mapped.item.py = "Product" \/ src.description = None
                     \/ src.description = Str("")
                  THEN None
                  ELSE src.description

C5_Witness ==
    /\ SupportedCall
    /\ mapped.item.py = "Task"
    /\ mapped.item.id = 12
    /\ mapped.item.description = Str("")
    /\ mapped.result.outcome = "event"
    /\ mapped.result.event.uid = "12"

\* C6: an item that is none of Chore, Battery, MealPlanEntry, Product, Task
\* (None included) makes the mapper raise the unsupported-item-type error,
\* whose message names the category key and the runtime type; no event is
\* produced.
C6_UnsupportedRaises ==
    (MapperCalled /\ mapped.item.py \notin SupportedTypes) =>
        /\ mapped.result.outcome = "raise"
        /\ mapped.result.exc = "NotImplementedError"
        /\ mapped.result.msg =
              mapped.key \o " => <class '"
              \o (IF mapped.item = None THEN "NoneType" ELSE mapped.item.py)
              \o "'>"

C6_Witness ==
    /\ MapperCalled
    /\ mapped.item = None
    /\ mapped.key = ATTR_TASKS
    /\ mapped.result.outcome = "raise"

---------------------------------------------------------------------------
(* Properties of the calendar entity, checked under Spec *)

Queried == query.result.outcome # "idle"

\* the cached value the last query read (a refresh clears the query)
QueriedData == data[query.key]

NonNull(items) == SelectSeq(items, LAMBDA x : x # None)

\* C7: when the category is absent from the cache, or its list is empty,
\* async_get_events returns an empty list: not None, and no exception.
C7_NoDataGivesEmptyList ==
    (Queried /\ (QueriedData = None \/ QueriedData = List(<<>>))) =>
        /\ query.result.outcome = "return"
        /\ query.result.value = List(<<>>)

C7_Witness ==
    /\ Queried
    /\ QueriedData = None
    /\ \E k \in Keys : Truthy(data[k])
    /\ query.result.outcome = "return"

\* C8: for a non-empty list of supported items, async_get_events returns
\* one event per item that is not None, in the order of the list, whatever
\* the window asked for.
C8_OneEventPerItemInOrder ==
    (/\ Queried
     /\ Truthy(QueriedData)
     /\ \A i \in 1..Len(QueriedData.items) :
           QueriedData.items[i] = None
           \/ QueriedData.items[i].py \in SupportedTypes) =>
        LET items == NonNull(QueriedData.items)
        IN  /\ query.result.outcome = "return"
            /\ query.result.value.py = "list"
            /\ Len(query.result.value.items) = Len(items)
            /\ \A i \in 1..Len(items) :
                  query.result.value.items[i] =
                      GrocyCalendarEvent(items[i], query.key, query.at).event

C8_Witness ==
    /\ Queried
    /\ QueriedData = List(<<CachedTask, CachedChore>>)
    /\ query.start_date = DateTime(72, DEFAULT_TIME_ZONE)
    /\ query.result.outcome = "return"
    /\ Len(query.result.value.items) = 2
    /\ query.result.value.items[1].uid = "12"

\* C10: when an item of the list that is not None is of an unsupported
\* type, async_get_events raises the unsupported-item-type error and
\* returns no list, wherever the item stands in the list.
C10_OneBadItemFailsTheQuery ==
    (/\ Queried
     /\ Truthy(QueriedData)
     /\ \E i \in 1..Len(QueriedData.items) :
           /\ QueriedData.items[i] # None
           /\ QueriedData.items[i].py \notin SupportedTypes) =>
        /\ query.result.outcome = "raise"
        /\ query.result.exc = "NotImplementedError"

C10_Witness ==
    /\ Queried
    /\ QueriedData = List(<<CachedChore, ShoppingListProduct>>)
    /\ query.result.outcome = "raise"

---------------------------------------------------------------------------
(* Properties of the platform setup, checked under SetupSpec *)

\* the category keys in the order of the descriptors
DescriptorOrder ==
    <<"batteries", "chores", "expiring_products", "meal_plan", "tasks">>

\* C9: async_setup_entry constructs an entity for exactly the descriptors
\* whose key is among the available entities, in descriptor order, appends
\* each to coordinator.entities after the entries already there, and hands
\* the same entities to the host.
C9_SetupRegistersAvailable ==
    [][(~added.called /\ added'.called) =>
        LET keys == SelectSeq(DescriptorOrder,
                              LAMBDA k : k \in available_entities)
        IN  /\ Len(added'.entities) = Len(keys)
            /\ \A i \in 1..Len(keys) :
                  /\ added'.entities[i].platform = "calendar"
                  /\ added'.entities[i].entity_description.key = keys[i]
            /\ coordinator_entities' = coordinator_entities \o added'.entities]_vars

C9_Witness ==
    /\ added.called
    /\ Len(added.entities) = 2
    /\ added.entities[1].entity_description.key = ATTR_CHORES
    /\ Len(coordinator_entities) = 3
    /\ coordinator_entities[1].platform = "sensor"
    /\ coordinator_entities[2] = added.entities[1]

====
